---------------------------- MODULE Spec2Model ----------------------------
(***************************************************************************)
(* Slot calculator and builder permissioning of init4tech/bin-base.        *)
(*                                                                         *)
(* Conventions                                                             *)
(*   Option<T>      : None is <<>>, Some(v) is <<v>>.                      *)
(*   Range<u64>     : [start |-> a, end |-> b], half open.                 *)
(*   u64 / usize    : naturals; the modelled domains stay far below 2^64,  *)
(*                    so additions never overflow.  A subtraction that     *)
(*                    goes below zero is an arithmetic overflow in Rust:   *)
(*                    it aborts when overflow checks are on and wraps      *)
(*                    modulo 2^64 when they are off.  A wrapped value v is *)
(*                    written as the negative integer v - 2^64.            *)
(*   abort          : every operation that can abort has a predicate       *)
(*                    <name>_panics; the value operator is total.          *)
(***************************************************************************)
EXTENDS Integers, Sequences, FiniteSets

VARIABLES
    calc,       \* SlotCalculator {start_timestamp, slot_offset, slot_duration}
    config,     \* SlotAuthzConfig {block_query_start, block_query_cutoff}
    builders,   \* Builders.builders: the roster, a sequence of subs
    clock,      \* the wall clock, Unix seconds (chrono::Utc::now().timestamp())
    req,        \* the request being served by BuilderPermissioningService::call
    peer,       \* the request being served by another clone of the service
    granted,    \* history: the subs permitted in the slot the clock is in
    probe,      \* the last direct call of a pure operation and what it returned
    auth        \* the OAuth token's watch channel, its refresh task, its readers

vars == <<calc, config, builders, clock, req, peer, granted, probe, auth>>

----------------------------------------------------------------------------
(* Bounds of the model.                                                    *)

MaxStart == 2
MaxOffset == 1
MaxDuration == 3
MaxProbeTime == 30
MaxProbeSlot == 5
MaxRoster == 3
MaxServiceStart == 1
MaxServiceDuration == 2
MaxWindow == 1
MaxSlots == 4

(* Program constants.                                                      *)

ETHEREUM_SLOT_TIME == 12
ClampMax == 11
U8Max == 255

----------------------------------------------------------------------------
(* Option and arithmetic helpers.                                          *)

None == <<>>
Some(v) == <<v>>
IsSome(o) == Len(o) = 1
Unwrap(o) == o[1]

\* u64 `/` and `%`; a zero divisor aborts (see the _panics predicates), the
\* value operators return 0 there so that they stay total.
Div(a, b) == IF b = 0 THEN 0 ELSE a \div b
Rem(a, b) == IF b = 0 THEN 0 ELSE a % b

\* Ord::clamp for unsigned integers.
Clamp(v, lo, hi) == IF v < lo THEN lo ELSE IF v > hi THEN hi ELSE v

----------------------------------------------------------------------------
(* SlotCalculator (src/utils/calc.rs).                                     *)

SlotCalculator_new(start_timestamp, slot_offset, slot_duration) ==
    [start_timestamp |-> start_timestamp,
     slot_offset     |-> slot_offset,
     slot_duration   |-> slot_duration]

slot_utc_offset_panics(c) == c.slot_duration = 0
slot_utc_offset(c) == Rem(c.start_timestamp, c.slot_duration)

slot_containing_panics(c, timestamp) ==
    timestamp >= c.start_timestamp /\ c.slot_duration = 0
\* Mutant: the `+ 1` is dropped, so the slot at start_timestamp is slot_offset.
slot_containing_without_increment(c, timestamp) ==
    IF timestamp < c.start_timestamp
    THEN None
    ELSE Some(Div(timestamp - c.start_timestamp, c.slot_duration)
                  + c.slot_offset)
\* Mutant: the elapsed time is rounded up (div_ceil) instead of down.
slot_containing_div_ceil(c, timestamp) ==
    IF timestamp < c.start_timestamp
    THEN None
    ELSE LET elapsed == timestamp - c.start_timestamp
         IN  Some(Div(elapsed + c.slot_duration - 1, c.slot_duration)
                      + 1 + c.slot_offset)
slot_containing(c, timestamp) ==
    IF timestamp < c.start_timestamp
    THEN None
    ELSE LET elapsed == timestamp - c.start_timestamp
             slots   == Div(elapsed, c.slot_duration) + 1
         IN  Some(slots + c.slot_offset)

point_within_slot_panics(c, timestamp) == c.slot_duration = 0
\* Mutant: no result before start_timestamp (as slot_containing has it).
point_within_slot_from_chain_start(c, timestamp) ==
    IF timestamp < c.start_timestamp
    THEN None
    ELSE Some(Rem(timestamp - c.start_timestamp, c.slot_duration))
\* Mutant: the UTC offset of the chain start is ignored.
point_within_slot_without_utc_offset(c, timestamp) ==
    Some(Rem(timestamp, c.slot_duration))
point_within_slot(c, timestamp) ==
    IF timestamp < slot_utc_offset(c)
    THEN None
    ELSE Some(Rem(timestamp - slot_utc_offset(c), c.slot_duration))

checked_point_within_slot_panics(c, slot, timestamp) ==
    \/ slot_containing_panics(c, timestamp)
    \/ /\ slot_containing(c, timestamp) = Some(slot)
       /\ point_within_slot_panics(c, timestamp)
\* Mutant: the slot is not compared with the one containing the timestamp.
checked_point_within_slot_any_slot(c, slot, timestamp) ==
    LET calculated == slot_containing(c, timestamp)
    IN  IF calculated = None
        THEN None
        ELSE point_within_slot(c, timestamp)
checked_point_within_slot(c, slot, timestamp) ==
    LET calculated == slot_containing(c, timestamp)
    IN  IF calculated = None \/ Unwrap(calculated) # slot
        THEN None
        ELSE point_within_slot(c, timestamp)

\* slot_window: `slot_number - slot_offset` and `end_of_slot - slot_duration`
\* go below zero for slots before the first one.
slot_window_overflows(c, slot_number) ==
    \/ slot_number < c.slot_offset
    \/ (slot_number - c.slot_offset) * c.slot_duration + c.start_timestamp
           < c.slot_duration
\* Mutant: the windows lie one slot earlier (slot n ends where it should
\* start).
slot_window_one_slot_early(c, slot_number) ==
    LET end_of_slot == (slot_number - c.slot_offset - 1) * c.slot_duration
                           + c.start_timestamp
    IN  [start |-> end_of_slot - c.slot_duration, end |-> end_of_slot]
\* Mutant: the window starts one second late.
slot_window_late_start(c, slot_number) ==
    LET end_of_slot == (slot_number - c.slot_offset) * c.slot_duration
                           + c.start_timestamp
    IN  [start |-> end_of_slot - c.slot_duration + 1, end |-> end_of_slot]
slot_window(c, slot_number) ==
    LET end_of_slot   == (slot_number - c.slot_offset) * c.slot_duration
                             + c.start_timestamp
        start_of_slot == end_of_slot - c.slot_duration
    IN  [start |-> start_of_slot, end |-> end_of_slot]

slot_start(c, slot_number) == slot_window(c, slot_number).start
slot_end(c, slot_number) == slot_window(c, slot_number).end
slot_timestamp(c, slot_number) == slot_end(c, slot_number)

\* Range::contains
Contains(r, t) == r.start <= t /\ t < r.end

slot_window_for_timestamp_panics(c, timestamp) ==
    slot_containing_panics(c, timestamp)
slot_window_for_timestamp(c, timestamp) ==
    LET slot == slot_containing(c, timestamp)
    IN  IF slot = None THEN None ELSE Some(slot_window(c, Unwrap(slot)))

slot_starting_at_panics(c, timestamp) ==
    timestamp >= c.start_timestamp /\ c.slot_duration = 0
slot_starting_at(c, timestamp) ==
    IF timestamp < c.start_timestamp
    THEN None
    ELSE IF Rem(timestamp - c.start_timestamp, c.slot_duration) # 0
         THEN None
         ELSE slot_containing(c, timestamp)

slot_ending_at_panics(c, timestamp) ==
    timestamp >= c.start_timestamp /\ c.slot_duration = 0
slot_ending_at(c, timestamp) ==
    IF timestamp < c.start_timestamp
    THEN None
    ELSE IF Rem(timestamp - c.start_timestamp, c.slot_duration) # 0
         THEN None
         ELSE LET slot == slot_containing(c, timestamp)
              IN  IF slot = None THEN None
                  ELSE IF Unwrap(slot) < 1 THEN None
                  ELSE Some(Unwrap(slot) - 1)

----------------------------------------------------------------------------
(* SlotAuthzConfig (src/perms/config.rs).                                  *)

SlotAuthzConfig_new(chain_offset, block_query_cutoff, block_query_start) ==
    [chain_offset       |-> Clamp(chain_offset, 0, ClampMax),
     block_query_cutoff |-> Clamp(block_query_cutoff, 0, ClampMax),
     block_query_start  |-> Clamp(block_query_start, 0, ClampMax)]

block_query_cutoff(cfg) == cfg.block_query_cutoff
block_query_start(cfg) == cfg.block_query_start

----------------------------------------------------------------------------
(* Parts of SlotCalculator that Builders calls and calc.rs does not hold:  *)
(* they follow the specification's slot_containing / point_within_slot,    *)
(* returning the bare integer and aborting where those have no result.     *)

calculate_slot_panics(c, timestamp) ==
    \/ slot_containing_panics(c, timestamp)
    \/ slot_containing(c, timestamp) = None
calculate_slot(c, timestamp) ==
    LET slot == slot_containing(c, timestamp)
    IN  IF slot = None THEN 0 ELSE Unwrap(slot)

current_timepoint_within_slot_panics(c, now) ==
    \/ point_within_slot_panics(c, now)
    \/ point_within_slot(c, now) = None
current_timepoint_within_slot(c, now) ==
    LET point == point_within_slot(c, now)
    IN  IF point = None THEN 0 ELSE Unwrap(point)

----------------------------------------------------------------------------
(* Builders (src/perms/builders.rs).  A roster is a sequence of subs; the  *)
(* code's indices are 0-based, TLA+ sequences 1-based.                     *)

builder_at_panics(bs, i) == i >= Len(bs)
builder_at(bs, i) == IF i < Len(bs) THEN bs[i + 1] ELSE ""

index_panics(bs, c, timestamp) ==
    calculate_slot_panics(c, timestamp) \/ Len(bs) = 0
\* Mutant: the slot is normalized by slot_offset before the modulo.
index_normalized(bs, c, timestamp) ==
    Rem(calculate_slot(c, timestamp) - c.slot_offset, Len(bs))
\* Mutant: the timestamp itself, not its slot, is reduced modulo the roster.
index_of_timestamp(bs, c, timestamp) == Rem(timestamp, Len(bs))
index(bs, c, timestamp) == Rem(calculate_slot(c, timestamp), Len(bs))

builder_at_timestamp_panics(bs, c, timestamp) ==
    \/ index_panics(bs, c, timestamp)
    \/ builder_at_panics(bs, index(bs, c, timestamp))
builder_at_timestamp(bs, c, timestamp) ==
    builder_at(bs, index(bs, c, timestamp))

\* index_now / current_builder read the clock through now().
index_now_panics(bs, c, now) == index_panics(bs, c, now)
index_now(bs, c, now) == index(bs, c, now)

current_builder_panics(bs, c, now) ==
    \/ index_now_panics(bs, c, now)
    \/ builder_at_panics(bs, index_now(bs, c, now))
current_builder(bs, c, now) == builder_at(bs, index_now(bs, c, now))

----------------------------------------------------------------------------
(* Input domains.                                                          *)

Names == <<"a", "b", "c", "d", "e", "f">>
Roster(k) == [i \in 1..k |-> Names[i]]
Rosters == {Roster(k) : k \in 0..MaxRoster}

StartInputs == 0..MaxStart \cup {ETHEREUM_SLOT_TIME}
DurationInputs == 0..MaxDuration \cup {ETHEREUM_SLOT_TIME}
CalcInputs ==
    {SlotCalculator_new(s, o, d) :
        s \in StartInputs, o \in 0..MaxOffset, d \in DurationInputs}

ProbeTimes == 0..MaxProbeTime
ProbeSlots == 0..MaxProbeSlot

\* The request in hand: where `call` stands (pc), who called (via), the
\* header and the sub taken from it, the two clock readings of the check, its
\* decision, the response, how often the inner service was called, the
\* request it was given (its header stands for the request) and its answer.
NoResponse ==
    [status |-> 0, error |-> "", message |-> "", hint |-> None]
NewReq(via, header, sub, pc) ==
    [pc |-> pc, via |-> via, header |-> header, sub |-> sub,
     tPoint |-> None, tBuilder |-> None, decision |-> "none",
     response |-> NoResponse, inner_calls |-> 0, panicked |-> FALSE,
     forwarded |-> None, inner_response |-> None]

IdleReq == NewReq("none", None, "", "idle")
NoProbe == [op |-> "none", a |-> 0, b |-> 0, panic |-> FALSE, ret |-> None]
Returned(op, a, b, panics, ret) ==
    [op |-> op, a |-> a, b |-> b, panic |-> panics,
     ret |-> IF panics THEN None ELSE ret]

\* A call on the token (SharedToken::wait, SharedToken::secret,
\* BuilderTxCache::get_bundles): where it stands, whether it had to wait for
\* the channel, and what it returned.
IdleCall == [pc |-> "idle", waited |-> FALSE, ret |-> None]

\* No token channel has been created.
NoAuth ==
    [origin |-> "none", sender |-> "none", token |-> None, task |-> "none",
     fetches |-> 0, errs |-> 0, last |-> "none",
     wait |-> IdleCall, secret |-> IdleCall, get_bundles |-> IdleCall,
     requests |-> 0]

----------------------------------------------------------------------------
(* SpecCalc: the pure operations of SlotCalculator and of the round-robin  *)
(* selector, called directly on inputs drawn from the bounded domains.     *)

InitCalc ==
    /\ calc \in CalcInputs
    /\ builders \in Rosters
    /\ config = SlotAuthzConfig_new(0, 0, 0)
    /\ clock = 0
    /\ req = IdleReq
    /\ peer = IdleReq
    /\ granted = {}
    /\ probe = NoProbe
    /\ auth = NoAuth

\* One call at a time: a call is made when the previous one has been consumed.
ProbeFrame ==
    /\ probe = NoProbe
    /\ UNCHANGED <<calc, config, builders, clock, req, granted, peer, auth>>

ProbeDone ==
    /\ probe # NoProbe
    /\ probe' = NoProbe
    /\ UNCHANGED <<calc, config, builders, clock, req, granted, peer, auth>>

ProbeSlotContaining ==
    \E t \in ProbeTimes :
        /\ ProbeFrame
        /\ probe' = Returned("slot_containing", t, 0,
                             slot_containing_panics(calc, t),
                             slot_containing(calc, t))

ProbePointWithinSlot ==
    \E t \in ProbeTimes :
        /\ ProbeFrame
        /\ probe' = Returned("point_within_slot", t, 0,
                             point_within_slot_panics(calc, t),
                             point_within_slot(calc, t))

ProbeCheckedPointWithinSlot ==
    \E s \in ProbeSlots, t \in ProbeTimes :
        /\ ProbeFrame
        /\ probe' = Returned("checked_point_within_slot", s, t,
                             checked_point_within_slot_panics(calc, s, t),
                             checked_point_within_slot(calc, s, t))

\* With overflow checks on an overflowing slot_window aborts; without them it
\* returns the wrapped bounds.  Both builds exist.
ProbeSlotWindow ==
    \E s \in ProbeSlots, overflow_checks \in BOOLEAN :
        /\ ProbeFrame
        /\ probe' = Returned("slot_window", s, 0,
                             slot_window_overflows(calc, s) /\ overflow_checks,
                             slot_window(calc, s))

ProbeSlotWindowForTimestamp ==
    \E t \in ProbeTimes :
        /\ ProbeFrame
        /\ probe' = Returned("slot_window_for_timestamp", t, 0,
                             slot_window_for_timestamp_panics(calc, t),
                             slot_window_for_timestamp(calc, t))

ProbeSlotStartingAt ==
    \E t \in ProbeTimes :
        /\ ProbeFrame
        /\ probe' = Returned("slot_starting_at", t, 0,
                             slot_starting_at_panics(calc, t),
                             slot_starting_at(calc, t))

ProbeSlotEndingAt ==
    \E t \in ProbeTimes :
        /\ ProbeFrame
        /\ probe' = Returned("slot_ending_at", t, 0,
                             slot_ending_at_panics(calc, t),
                             slot_ending_at(calc, t))

\* slot_starting_at(slot_start(s)) for the slots from the first one on.
ProbeSlotStartingAtSlotStart ==
    \E s \in ProbeSlots :
        /\ ProbeFrame
        /\ s >= calc.slot_offset + 1
        /\ probe' = Returned("slot_starting_at_slot_start", s, 0,
                             slot_starting_at_panics(calc, slot_start(calc, s)),
                             slot_starting_at(calc, slot_start(calc, s)))

\* slot_ending_at(slot_end(s)) for the slots from the initial one on.
\* slot_end goes through slot_window, whose start may overflow.
ProbeSlotEndingAtSlotEnd ==
    \E s \in ProbeSlots, overflow_checks \in BOOLEAN :
        /\ ProbeFrame
        /\ s >= calc.slot_offset
        /\ probe' = Returned("slot_ending_at_slot_end", s, 0,
                             \/ slot_window_overflows(calc, s)
                                    /\ overflow_checks
                             \/ slot_ending_at_panics(calc, slot_end(calc, s)),
                             slot_ending_at(calc, slot_end(calc, s)))

ProbeIndex ==
    \E t \in ProbeTimes :
        /\ ProbeFrame
        /\ probe' = Returned("index", t, 0,
                             index_panics(builders, calc, t),
                             index(builders, calc, t))

ProbeBuilderAtTimestamp ==
    \E t \in ProbeTimes :
        /\ ProbeFrame
        /\ probe' = Returned("builder_at_timestamp", t, 0,
                             builder_at_timestamp_panics(builders, calc, t),
                             builder_at_timestamp(builders, calc, t))

NextCalc ==
    \/ ProbeSlotContaining
    \/ ProbePointWithinSlot
    \/ ProbeCheckedPointWithinSlot
    \/ ProbeSlotWindow
    \/ ProbeSlotWindowForTimestamp
    \/ ProbeSlotStartingAt
    \/ ProbeSlotEndingAt
    \/ ProbeSlotStartingAtSlotStart
    \/ ProbeSlotEndingAtSlotEnd
    \/ ProbeIndex
    \/ ProbeBuilderAtTimestamp
    \/ ProbeDone

SpecCalc == InitCalc /\ [][NextCalc]_vars

----------------------------------------------------------------------------
(* Builders::is_builder_permissioned (src/perms/builders.rs).  The check   *)
(* reads the clock twice: once for the point within the slot, and again    *)
(* (through current_builder) for the assigned builder.                     *)

\* The window test on the point read at `now`: the error it returns, or Ok.
\* Mutant: the cutoff test comes before the start test.
window_test_cutoff_first(cfg, c, now) ==
    LET current_slot_time == current_timepoint_within_slot(c, now)
    IN  IF current_slot_time > block_query_cutoff(cfg)
        THEN "ActionAttemptTooLate"
        ELSE IF current_slot_time < block_query_start(cfg)
             THEN "ActionAttemptTooEarly"
             ELSE "Ok"
\* Mutant: the cutoff is exclusive (>= instead of >).
window_test_exclusive_cutoff(cfg, c, now) ==
    LET current_slot_time == current_timepoint_within_slot(c, now)
    IN  IF current_slot_time < block_query_start(cfg)
        THEN "ActionAttemptTooEarly"
        ELSE IF current_slot_time >= block_query_cutoff(cfg)
             THEN "ActionAttemptTooLate"
             ELSE "Ok"
\* Mutant: the two bounds are put in order before the tests.
window_test_ordered(cfg, c, now) ==
    LET current_slot_time == current_timepoint_within_slot(c, now)
        lo == IF block_query_start(cfg) <= block_query_cutoff(cfg)
              THEN block_query_start(cfg) ELSE block_query_cutoff(cfg)
        hi == IF block_query_start(cfg) <= block_query_cutoff(cfg)
              THEN block_query_cutoff(cfg) ELSE block_query_start(cfg)
    IN  IF current_slot_time < lo
        THEN "ActionAttemptTooEarly"
        ELSE IF current_slot_time > hi
             THEN "ActionAttemptTooLate"
             ELSE "Ok"
window_test(cfg, c, now) ==
    LET current_slot_time == current_timepoint_within_slot(c, now)
    IN  IF current_slot_time < block_query_start(cfg)
        THEN "ActionAttemptTooEarly"
        ELSE IF current_slot_time > block_query_cutoff(cfg)
             THEN "ActionAttemptTooLate"
             ELSE "Ok"

\* The identity test against the builder read at `now`.
\* Mutant: a grant locks the slot; while another request holds a grant of
\* this slot the assigned builder is refused.
identity_test_locked(bs, c, sub, now) ==
    IF granted # {} \/ sub # current_builder(bs, c, now)
    THEN "NotPermissioned"
    ELSE "Ok"
\* Mutant: the first sub to ask in a slot is granted it, whoever is assigned.
identity_test_first_come(bs, c, sub, now) ==
    IF granted = {} \/ sub \in granted THEN "Ok" ELSE "NotPermissioned"
\* Mutant: any builder of the roster passes, not only the assigned one.
identity_test_any_member(bs, c, sub, now) ==
    IF \A i \in 1..Len(bs) : bs[i] # sub THEN "NotPermissioned" ELSE "Ok"
identity_test(bs, c, sub, now) ==
    IF sub # current_builder(bs, c, now) THEN "NotPermissioned" ELSE "Ok"

\* The whole check at one frozen instant.
is_builder_permissioned_panics(bs, cfg, c, sub, now) ==
    \/ current_timepoint_within_slot_panics(c, now)
    \/ /\ window_test(cfg, c, now) = "Ok"
       /\ current_builder_panics(bs, c, now)
is_builder_permissioned(bs, cfg, c, sub, now) ==
    IF window_test(cfg, c, now) # "Ok"
    THEN window_test(cfg, c, now)
    ELSE identity_test(bs, c, sub, now)

----------------------------------------------------------------------------
(* The interception layer (src/perms/middleware.rs).                       *)

\* Option<&HeaderValue>: a header value is its bytes and whether they are
\* all visible ASCII (HeaderValue::to_str fails otherwise).
HeaderValue(bytes, visible) == [bytes |-> bytes, visible |-> visible]
to_str(hv) == IF hv.visible THEN Some(hv.bytes) ELSE None

ApiError_missing_header ==
    [status |-> 401, error |-> "MISSING_AUTH_HEADER",
     message |-> "Missing authentication header",
     hint |-> Some("Please provide the 'x-jwt-claim-sub' header with your JWT claim sub.")]
ApiError_invalid_encoding ==
    [status |-> 400, error |-> "INVALID_ENCODING",
     message |-> "Invalid encoding in header value",
     hint |-> Some("Ensure the 'x-jwt-claim-sub' header is properly encoded.")]
ApiError_header_empty ==
    [status |-> 400, error |-> "EMPTY_HEADER",
     message |-> "Empty header value",
     hint |-> Some("Ensure the 'x-jwt-claim-sub' header is not empty.")]
ApiError_permission_denied(hint) ==
    [status |-> 403, error |-> "PERMISSION_DENIED",
     message |-> "Builder permission denied",
     hint |-> hint]

\* Mutant: one hint for the three errors.
builder_permissioning_hint_uniform(err) ==
    Some("Builder permission denied.")
builder_permissioning_hint(err) ==
    CASE err = "ActionAttemptTooEarly" ->
             Some("Action attempted too early in the slot.")
      [] err = "ActionAttemptTooLate" ->
             Some("Action attempted too late in the slot.")
      [] err = "NotPermissioned" ->
             Some("Builder is not permissioned for this slot.")

\* validate_header_sub: [ok |-> TRUE, sub |-> s] or [ok |-> FALSE, err |-> e].
validate_header_sub(header) ==
    IF header = None
    THEN [ok |-> FALSE, sub |-> "", err |-> ApiError_missing_header]
    ELSE IF to_str(Unwrap(header)) = None
         THEN [ok |-> FALSE, sub |-> "", err |-> ApiError_invalid_encoding]
         ELSE IF Unwrap(to_str(Unwrap(header))) = ""
              THEN [ok |-> FALSE, sub |-> "", err |-> ApiError_header_empty]
              ELSE [ok |-> TRUE, sub |-> Unwrap(to_str(Unwrap(header))),
                    err |-> ApiError_header_empty]

\* The span of `call` evaluates current_builder(), current_slot() and
\* current_point_within_slot().expect("host chain has started") before the
\* header is looked at.  The clock only moves forward, so the three reads
\* abort exactly when they would abort at the first one.
span_panics(bs, c, now) ==
    \/ current_builder_panics(bs, c, now)
    \/ slot_containing_panics(c, now)
    \/ point_within_slot_panics(c, now)
    \/ point_within_slot(c, now) = None

\* What the inner service answers; the layer never looks inside it.  The
\* inner service may succeed or answer with an error of its own.
InnerResponse ==
    [status |-> 200, error |-> "", message |-> "inner", hint |-> None]
InnerFailure ==
    [status |-> 500, error |-> "INNER", message |-> "inner failed",
     hint |-> None]
InnerResponses == {InnerResponse, InnerFailure}

----------------------------------------------------------------------------
(* Spec: the service.  One request at a time walks through `call`; the     *)
(* clock ticks between any two of its steps.                               *)

Subs == {"a", "b", "A"}
Headers ==
    {None, Some(HeaderValue("\\xff", FALSE)), Some(HeaderValue("", TRUE))}
        \cup {Some(HeaderValue(sub, TRUE)) : sub \in Subs}

WindowInputs == 0..MaxWindow \cup {U8Max}
ServiceCalcs ==
    {SlotCalculator_new(s, o, d) :
        s \in 0..MaxServiceStart, o \in 0..MaxOffset,
        d \in 0..MaxServiceDuration}

\* The clock is followed for MaxSlots slots after the chain start.
Horizon(c) == c.start_timestamp + MaxSlots * c.slot_duration

\* Deployments with small slots.
InitSmall ==
    /\ calc \in ServiceCalcs
    /\ \E cutoff \in WindowInputs, start \in WindowInputs :
           config = SlotAuthzConfig_new(0, cutoff, start)
    /\ builders \in Rosters

\* The deployment of the load_builders test: 12-second slots starting at 1,
\* window [1, 11], and the same with the cutoff at 10 and at 1.
InitEthereum ==
    /\ calc = SlotCalculator_new(1, 0, ETHEREUM_SLOT_TIME)
    /\ \E cutoff \in {1, ClampMax - 1, ClampMax} :
           config = SlotAuthzConfig_new(0, cutoff, 1)
    /\ builders = Roster(2)

Init ==
    /\ InitSmall \/ InitEthereum
    /\ clock = 0
    /\ req = IdleReq
    /\ peer = IdleReq
    /\ granted = {}
    /\ probe = NoProbe
    /\ auth = NoAuth

\* A second passes.  The grants of a slot are forgotten when it ends.  A
\* finished call reads the clock no more, so it is handed back (Return)
\* before the next tick.  now() aborts on a negative time; the clock starts
\* at the epoch.  What another replica answered at the instant that has
\* passed is dropped.
Tick ==
    /\ clock < Horizon(calc)
    /\ req.pc # "done"
    /\ peer.pc # "done"
    /\ clock' = clock + 1
    /\ granted' = IF slot_containing(calc, clock + 1)
                        = slot_containing(calc, clock)
                   THEN granted ELSE {}
    /\ probe' = NoProbe
    /\ UNCHANGED <<calc, config, builders, req, peer, auth>>

\* BuilderPermissioningService::call is entered with a request.
Call ==
    \E header \in Headers :
        /\ req.pc = "idle"
        /\ req' = NewReq("layer", header, "", "span")
        /\ UNCHANGED <<calc, config, builders, clock, granted, probe, peer, auth>>

\* The span is built; an abort ends the task without a response.
SpanStep(r) ==
    IF span_panics(builders, calc, clock)
    THEN [r EXCEPT !.pc = "done", !.panicked = TRUE]
    ELSE [r EXCEPT !.pc = "validate"]
Span ==
    /\ req.pc = "span"
    /\ req' = SpanStep(req)
    /\ UNCHANGED <<calc, config, builders, clock, granted, probe, peer, auth>>

\* validate_header_sub; a bad header is answered by the layer itself.
ValidateStep(r) ==
    LET v == validate_header_sub(r.header)
    IN  IF v.ok
        THEN [r EXCEPT !.pc = "check", !.sub = v.sub]
        ELSE [r EXCEPT !.pc = "done", !.response = v.err]
Validate ==
    /\ req.pc = "validate"
    /\ req' = ValidateStep(req)
    /\ UNCHANGED <<calc, config, builders, clock, granted, probe, peer, auth>>

\* Builders::is_builder_permissioned called by some other caller.
CallDirect ==
    \E sub \in Subs \cup {""} :
        /\ req.pc = "idle"
        /\ req' = NewReq("direct", None, sub, "check")
        /\ UNCHANGED <<calc, config, builders, clock, granted, probe, peer, auth>>

\* A decision of is_builder_permissioned reaches the caller: the layer turns
\* an error into its response, a direct caller just gets the decision.
\* Mutant: the layer forwards the request whatever the decision.
Decided_forward_always(r, decision) ==
    IF r.via = "layer"
    THEN [r EXCEPT !.pc = "inner", !.decision = decision]
    ELSE [r EXCEPT !.pc = "done", !.decision = decision]
Decided(r, decision) ==
    IF decision = "Ok"
    THEN IF r.via = "layer"
         THEN [r EXCEPT !.pc = "inner", !.decision = decision]
         ELSE [r EXCEPT !.pc = "done", !.decision = decision]
    ELSE [r EXCEPT !.pc = "done", !.decision = decision,
                   !.response =
                       IF r.via = "layer"
                       THEN ApiError_permission_denied(
                                builder_permissioning_hint(decision))
                       ELSE NoResponse]

\* is_builder_permissioned, first clock read: the point within the slot and
\* the window test.
ReadPointStep(r) ==
    IF current_timepoint_within_slot_panics(calc, clock)
    THEN [r EXCEPT !.pc = "done", !.panicked = TRUE]
    ELSE IF window_test(config, calc, clock) # "Ok"
         THEN Decided([r EXCEPT !.tPoint = Some(clock)],
                      window_test(config, calc, clock))
         ELSE [r EXCEPT !.pc = "builder", !.tPoint = Some(clock)]
ReadPoint ==
    /\ req.pc = "check"
    /\ req' = ReadPointStep(req)
    /\ UNCHANGED <<calc, config, builders, clock, granted, probe, peer, auth>>

\* is_builder_permissioned, second clock read: the assigned builder and the
\* identity test.  (On a mismatch the debug event reads current_builder once
\* more for its field; the clock has not gone back, so that read returns.)
ReadBuilderStep(r) ==
    IF current_builder_panics(builders, calc, clock)
    THEN [r EXCEPT !.pc = "done", !.panicked = TRUE]
    ELSE Decided([r EXCEPT !.tBuilder = Some(clock)],
                 identity_test(builders, calc, r.sub, clock))
\* The history of grants after the step that took r to r2.
Granted(r2) ==
    IF r2.decision = "Ok" THEN granted \cup {r2.sub} ELSE granted
ReadBuilder ==
    /\ req.pc = "builder"
    /\ req' = ReadBuilderStep(req)
    /\ granted' = Granted(ReadBuilderStep(req))
    /\ UNCHANGED <<calc, config, builders, clock, probe, peer, auth>>

\* this.inner.call(req).await: the request is forwarded and the inner
\* service's response is returned as it is.
InnerStep(r, answer) ==
    [r EXCEPT !.pc = "done",
              !.inner_calls = @ + 1,
              !.forwarded = Some(r.header),
              !.inner_response = Some(answer),
              !.response = answer]
Inner ==
    \E answer \in InnerResponses :
        /\ req.pc = "inner"
        /\ req' = InnerStep(req, answer)
    /\ UNCHANGED <<calc, config, builders, clock, granted, probe, peer, auth>>

\* The future resolves (or the aborted task is dropped); the service is
\* ready for the next request.
Return ==
    /\ req.pc = "done"
    /\ req' = IdleReq
    /\ UNCHANGED <<calc, config, builders, clock, granted, probe, peer, auth>>

Next ==
    \/ Tick
    \/ Call
    \/ Span
    \/ Validate
    \/ CallDirect
    \/ ReadPoint
    \/ ReadBuilder
    \/ Inner
    \/ Return

Spec == Init /\ [][Next]_vars

----------------------------------------------------------------------------
(* SpecReplicas: the service next to a second replica.  The replica holds  *)
(* the same Builders value (an Arc<Builders> is never written after        *)
(* construction) and evaluates is_builder_permissioned within one instant  *)
(* of the clock, between two requests of the service; its answer is kept   *)
(* while the clock stands.                                                 *)

InitReplicas ==
    /\ InitSmall
    /\ clock = 0
    /\ req = IdleReq
    /\ peer = IdleReq
    /\ granted = {}
    /\ probe = NoProbe
    /\ auth = NoAuth

Replica ==
    \E sub \in Subs :
        /\ probe.op = "none"
        /\ req.pc = "idle"
        /\ probe' = Returned("is_builder_permissioned", sub, clock,
                             is_builder_permissioned_panics(
                                 builders, config, calc, sub, clock),
                             Some(is_builder_permissioned(
                                 builders, config, calc, sub, clock)))
        /\ UNCHANGED <<calc, config, builders, clock, req, granted, peer, auth>>

NextReplicas ==
    \/ Next
    \/ Replica

SpecReplicas == InitReplicas /\ [][NextReplicas]_vars

----------------------------------------------------------------------------
(* SpecConcurrent: two clones of the service (call() starts with           *)
(* self.clone(); the clones share one Arc<Builders>) serve two requests    *)
(* whose steps and clock reads interleave in any order.  The window of a   *)
(* deployment is one point of the slot wide.                               *)

InitConcurrent ==
    /\ calc = SlotCalculator_new(MaxServiceStart, 0, MaxServiceDuration)
    /\ \E point \in {0, MaxWindow} :
           config = SlotAuthzConfig_new(0, point, point)
    /\ builders = Roster(2)
    /\ clock = 0
    /\ req = IdleReq
    /\ peer = IdleReq
    /\ granted = {}
    /\ probe = NoProbe
    /\ auth = NoAuth

PeerCall ==
    \E header \in Headers :
        /\ peer.pc = "idle"
        /\ peer' = NewReq("layer", header, "", "span")
        /\ UNCHANGED <<calc, config, builders, clock, req, granted, probe, auth>>

PeerSpan ==
    /\ peer.pc = "span"
    /\ peer' = SpanStep(peer)
    /\ UNCHANGED <<calc, config, builders, clock, req, granted, probe, auth>>

PeerValidate ==
    /\ peer.pc = "validate"
    /\ peer' = ValidateStep(peer)
    /\ UNCHANGED <<calc, config, builders, clock, req, granted, probe, auth>>

PeerReadPoint ==
    /\ peer.pc = "check"
    /\ peer' = ReadPointStep(peer)
    /\ UNCHANGED <<calc, config, builders, clock, req, granted, probe, auth>>

PeerReadBuilder ==
    /\ peer.pc = "builder"
    /\ peer' = ReadBuilderStep(peer)
    /\ granted' = Granted(ReadBuilderStep(peer))
    /\ UNCHANGED <<calc, config, builders, clock, req, probe, auth>>

PeerInner ==
    \E answer \in InnerResponses :
        /\ peer.pc = "inner"
        /\ peer' = InnerStep(peer, answer)
        /\ UNCHANGED <<calc, config, builders, clock, req, granted, probe, auth>>

PeerReturn ==
    /\ peer.pc = "done"
    /\ peer' = IdleReq
    /\ UNCHANGED <<calc, config, builders, clock, req, granted, probe, auth>>

NextConcurrent ==
    \/ Next
    \/ PeerCall
    \/ PeerSpan
    \/ PeerValidate
    \/ PeerReadPoint
    \/ PeerReadBuilder
    \/ PeerInner
    \/ PeerReturn

SpecConcurrent == InitConcurrent /\ [][NextConcurrent]_vars

----------------------------------------------------------------------------
(* Claims about the slot calculator, checked under SpecCalc.               *)

\* The slots from the first one on ("valid" slots, normalized n >= 1).
ValidSlot(s) == s >= calc.slot_offset + 1

\* C2: with slot_duration > 0, slot_containing(t) is None for every
\* t < start_timestamp and Some(slot_offset + 1) at t = start_timestamp.
C2_SlotContainingBeforeAndAtStart ==
    (probe.op = "slot_containing" /\ calc.slot_duration > 0) =>
        /\ ~probe.panic
        /\ probe.a < calc.start_timestamp => probe.ret = None
        /\ probe.a = calc.start_timestamp =>
               probe.ret = Some(calc.slot_offset + 1)

C2_Witness ==
    /\ probe.op = "slot_containing"
    /\ calc.slot_duration > 0
    /\ calc.start_timestamp > 0
    /\ calc.slot_offset > 0
    /\ probe.a = calc.start_timestamp
    /\ probe.ret = Some(calc.slot_offset + 1)

\* C3: for t >= start_timestamp, slot_containing(t) is Some(s) with
\* s = slot_offset + floor((t - start_timestamp) / slot_duration) + 1, and t
\* lies in slot_window(s) and in slot_window_for_timestamp(t); conversely
\* every t in the window of a valid slot s has slot_containing(t) = Some(s).
C3_SlotContainingMatchesWindow ==
    /\ (/\ probe.op = "slot_containing"
        /\ calc.slot_duration > 0
        /\ probe.a >= calc.start_timestamp) =>
           /\ ~probe.panic
           /\ probe.ret = Some(calc.slot_offset
                   + ((probe.a - calc.start_timestamp) \div calc.slot_duration)
                   + 1)
           /\ Contains(slot_window(calc, Unwrap(probe.ret)), probe.a)
           /\ ~slot_window_overflows(calc, Unwrap(probe.ret))
    /\ (/\ probe.op = "slot_window_for_timestamp"
        /\ calc.slot_duration > 0
        /\ probe.a >= calc.start_timestamp) =>
           /\ ~probe.panic
           /\ IsSome(probe.ret)
           /\ Contains(Unwrap(probe.ret), probe.a)
    /\ (/\ probe.op = "slot_window"
        /\ calc.slot_duration > 0
        /\ ValidSlot(probe.a)) =>
           /\ ~probe.panic
           /\ \A t \in probe.ret.start .. (probe.ret.end - 1) :
                  slot_containing(calc, t) = Some(probe.a)

C3_Witness ==
    /\ probe.op = "slot_containing"
    /\ calc.slot_duration > 1
    /\ Rem(calc.start_timestamp, calc.slot_duration) # 0
    /\ IsSome(probe.ret)
    /\ Unwrap(probe.ret) > calc.slot_offset + 1
    /\ probe.a = slot_end(calc, Unwrap(probe.ret)) - 1

\* C4: the windows of consecutive valid slots tile the timeline:
\* slot_window(n).end = slot_window(n + 1).start, and each window is exactly
\* slot_duration wide.
C4_AdjacentWindowsTile ==
    (probe.op = "slot_window" /\ ValidSlot(probe.a)) =>
        /\ ~probe.panic
        /\ probe.ret.end = slot_window(calc, probe.a + 1).start
        /\ probe.ret.end - probe.ret.start = calc.slot_duration
        /\ probe.ret.start >= calc.start_timestamp

C4_Witness ==
    /\ probe.op = "slot_window"
    /\ ValidSlot(probe.a)
    /\ probe.a > calc.slot_offset + 1
    /\ calc.slot_duration > 1
    /\ ~probe.panic
    /\ probe.ret.end = slot_window(calc, probe.a + 1).start

\* C5: for every valid slot, point_within_slot(slot_start(slot)) = Some(0)
\* and point_within_slot(slot_end(slot) - 1) = Some(slot_duration - 1), also
\* when start_timestamp is not a multiple of slot_duration.
C5_PointAtSlotEdges ==
    (probe.op = "point_within_slot" /\ calc.slot_duration > 0) =>
        \A n \in 1 .. (MaxProbeTime + 1) :
            LET slot == calc.slot_offset + n
            IN  /\ probe.a = slot_start(calc, slot) =>
                       (~probe.panic /\ probe.ret = Some(0))
                /\ probe.a = slot_end(calc, slot) - 1 =>
                       (~probe.panic
                            /\ probe.ret = Some(calc.slot_duration - 1))

C5_Witness ==
    /\ probe.op = "point_within_slot"
    /\ calc.slot_duration > 1
    /\ Rem(calc.start_timestamp, calc.slot_duration) # 0
    /\ probe.a = slot_end(calc, calc.slot_offset + 2) - 1
    /\ probe.ret = Some(calc.slot_duration - 1)

\* C6: on a non-empty roster, index(timestamp) is
\* slot_containing(timestamp) mod roster.len(), a valid roster index, and
\* builder_at_timestamp returns the roster entry at that index; roster
\* [a, b, c] at slot 7 selects index 1, identity b.
C6_RoundRobinSelector ==
    /\ (probe.op = "index" /\ ~probe.panic) =>
           /\ IsSome(slot_containing(calc, probe.a))
           /\ probe.ret =
                  Unwrap(slot_containing(calc, probe.a)) % Len(builders)
           /\ probe.ret \in 0 .. (Len(builders) - 1)
           /\ slot_containing(calc, probe.a) = Some(7) /\ Len(builders) = 3
                  => probe.ret = 1
    /\ (probe.op = "builder_at_timestamp" /\ ~probe.panic) =>
           /\ probe.ret = builders[
                  (Unwrap(slot_containing(calc, probe.a)) % Len(builders)) + 1]
           /\ slot_containing(calc, probe.a) = Some(7)
                  /\ builders = <<"a", "b", "c">>
                  => probe.ret = "b"
    /\ (/\ probe.op \in {"index", "builder_at_timestamp"}
        /\ Len(builders) > 0
        /\ calc.slot_duration > 0
        /\ probe.a >= calc.start_timestamp) => ~probe.panic

C6_Witness ==
    /\ probe.op = "builder_at_timestamp"
    /\ builders = <<"a", "b", "c">>
    /\ slot_containing(calc, probe.a) = Some(7)
    /\ ~probe.panic
    /\ probe.ret = "b"

\* C7: for a roster of length k the selected index is the same for all
\* timestamps of one slot, advances by one modulo k at each slot boundary,
\* repeats after k slots, and takes every value of 0..k-1 exactly once over
\* any k consecutive slots.
C7_RoundRobinRotation ==
    (probe.op = "index" /\ ~probe.panic) =>
        LET k == Len(builders)
            d == calc.slot_duration
            t == probe.a
            w == slot_window(calc, Unwrap(slot_containing(calc, t)))
        IN  /\ \A u \in w.start .. (w.end - 1) :
                   index(builders, calc, u) = probe.ret
            /\ index(builders, calc, w.end) = (probe.ret + 1) % k
            /\ w.start > calc.start_timestamp =>
                   probe.ret = (index(builders, calc, w.start - 1) + 1) % k
            /\ index(builders, calc, t + k * d) = probe.ret
            /\ {index(builders, calc, t + j * d) : j \in 0 .. (k - 1)}
                   = 0 .. (k - 1)
            /\ \A i, j \in 0 .. (k - 1) :
                   index(builders, calc, t + i * d)
                       = index(builders, calc, t + j * d) => i = j

C7_Witness ==
    /\ probe.op = "index"
    /\ ~probe.panic
    /\ Len(builders) = 3
    /\ calc.slot_duration > 1
    /\ calc.slot_offset > 0
    /\ probe.ret = 2
    /\ index(builders, calc, probe.a + calc.slot_duration) = 0

\* t lies on a slot boundary at or after the chain start.
OnBoundary(t) ==
    /\ t >= calc.start_timestamp
    /\ (t - calc.start_timestamp) % calc.slot_duration = 0

\* What C14 says of slot_starting_at(t), slot_ending_at(t) and the round
\* trip from slot_start.
BoundaryLookups ==
    /\ probe.op = "slot_starting_at" =>
           /\ ~probe.panic
           /\ IsSome(probe.ret) <=> OnBoundary(probe.a)
           /\ OnBoundary(probe.a) =>
                  probe.ret = slot_containing(calc, probe.a)
    /\ probe.op = "slot_ending_at" =>
           /\ ~probe.panic
           /\ IsSome(probe.ret) <=> OnBoundary(probe.a)
           /\ OnBoundary(probe.a) =>
                  probe.ret =
                      Some(Unwrap(slot_starting_at(calc, probe.a)) - 1)
    /\ probe.op = "slot_starting_at_slot_start" =>
           /\ ~probe.panic
           /\ probe.ret = Some(probe.a)

\* C14: slot_starting_at(t) and slot_ending_at(t) return Some exactly when
\* t >= start_timestamp and (t - start_timestamp) mod slot_duration = 0; there
\* slot_starting_at(t) = slot_containing(t) and slot_ending_at(t) =
\* slot_starting_at(t) - 1; slot_starting_at(slot_start(s)) = Some(s) for
\* s >= slot_offset + 1 and slot_ending_at(slot_end(s)) = Some(s) for
\* s >= slot_offset.
C14_BoundaryLookups ==
    calc.slot_duration > 0 =>
        /\ BoundaryLookups
        /\ probe.op = "slot_ending_at_slot_end" =>
               /\ ~probe.panic
               /\ probe.ret = Some(probe.a)

\* The same with the last round trip kept to the slots whose window does
\* not overflow (every slot but the initial one of a chain that starts
\* before its first slot_duration seconds have passed), or to a build
\* without overflow checks.
C14_BoundaryLookupsUnlessOverflow ==
    calc.slot_duration > 0 =>
        /\ BoundaryLookups
        /\ probe.op = "slot_ending_at_slot_end" =>
               /\ probe.panic => slot_window_overflows(calc, probe.a)
               /\ ~probe.panic => probe.ret = Some(probe.a)
               /\ slot_window_overflows(calc, probe.a) =>
                      /\ probe.a = calc.slot_offset
                      /\ calc.start_timestamp < calc.slot_duration

\* A lookup in the roster for a timestamp that has a slot.
RosterLookup ==
    /\ probe.op \in {"index", "builder_at_timestamp"}
    /\ ~calculate_slot_panics(calc, probe.a)

\* C17: an empty roster never leads to an abort: it is refused at
\* construction, and index / current_builder / is_builder_permissioned
\* never take a remainder by zero or look up outside the roster.
C17_EmptyRosterNeverAborts ==
    (RosterLookup /\ Len(builders) = 0) => ~probe.panic

\* What the code does: an empty roster is accepted by Builders::new, and
\* every lookup in it aborts; lookups in a non-empty roster do not.
C17_EmptyRosterAborts ==
    RosterLookup => (probe.panic <=> Len(builders) = 0)

\* The slot operations that divide or take a remainder by slot_duration.
SlotOperation ==
    probe.op \in {"slot_containing", "point_within_slot",
                  "slot_starting_at", "slot_ending_at"}

\* C18: every SlotCalculator that can be constructed has slot_duration > 0,
\* so slot_containing, point_within_slot, slot_starting_at and slot_ending_at
\* never divide or take a remainder by zero.
C18_SlotDurationPositive ==
    /\ SlotOperation => ~probe.panic
    /\ probe.op # "none" => calc.slot_duration > 0

\* What the code does: slot_duration 0 is accepted, point_within_slot then
\* aborts for every timestamp and the other three for every timestamp at or
\* after start_timestamp; with slot_duration > 0 none of them aborts.
C18_ZeroDurationAborts ==
    SlotOperation =>
        (probe.panic <=>
            /\ calc.slot_duration = 0
            /\ \/ probe.op = "point_within_slot"
               \/ probe.a >= calc.start_timestamp)

\* C19 as stated: the first header's timestamp equals
\* slot_end(slot_offset + 1), i.e. start_timestamp = slot_end(slot_offset + 1)
\* for every SlotCalculator.
C19_StartIsEndOfFirstSlot ==
    (probe.op = "slot_window" /\ probe.a = calc.slot_offset + 1) =>
        /\ ~probe.panic
        /\ probe.ret.end = calc.start_timestamp

\* C19 amended: start_timestamp is the start of slot slot_offset + 1 (the
\* end of the initial slot slot_offset), and slot_end(slot_offset + 1) is
\* start_timestamp + slot_duration, with
\* slot_end(slot) = (slot - slot_offset) * slot_duration + start_timestamp.
C19_StartIsStartOfFirstSlot ==
    /\ (probe.op = "slot_window" /\ probe.a = calc.slot_offset + 1) =>
           /\ ~probe.panic
           /\ probe.ret.start = calc.start_timestamp
           /\ probe.ret.end = calc.start_timestamp + calc.slot_duration
    /\ (probe.op = "slot_window" /\ probe.a >= calc.slot_offset
            /\ ~probe.panic) =>
           probe.ret.end = (probe.a - calc.slot_offset) * calc.slot_duration
                               + calc.start_timestamp
    /\ (probe.op = "slot_window" /\ probe.a = calc.slot_offset
            /\ ~probe.panic) =>
           probe.ret.end = calc.start_timestamp

C19_Witness ==
    /\ probe.op = "slot_window"
    /\ probe.a = calc.slot_offset + 1
    /\ calc.slot_offset > 0
    /\ calc.start_timestamp > 0
    /\ calc.slot_duration > 1
    /\ ~probe.panic
    /\ probe.ret.start = calc.start_timestamp
    /\ probe.ret.end > calc.start_timestamp

SinceSlotStart(t) ==
    t - slot_start(calc, Unwrap(slot_containing(calc, t)))

\* C29: point_within_slot agrees with the slot windows.  For every
\* t >= start_timestamp, point_within_slot(t) is
\* Some(t - slot_start(slot_containing(t))): 0 exactly at the slot
\* boundaries, one more with every second inside a slot; and
\* checked_point_within_slot(slot, t) is Some(that value) if and only if
\* slot_containing(t) = Some(slot), and None otherwise.
C29_PointAgreesWithWindows ==
    /\ (/\ probe.op = "point_within_slot"
        /\ calc.slot_duration > 0
        /\ probe.a >= calc.start_timestamp) =>
           LET t == probe.a
               w == slot_window(calc, Unwrap(slot_containing(calc, t)))
           IN  /\ ~probe.panic
               /\ probe.ret = Some(SinceSlotStart(t))
               /\ Unwrap(probe.ret) = 0 <=> t = w.start
               /\ Contains(w, t + 1) =>
                      point_within_slot(calc, t + 1)
                          = Some(Unwrap(probe.ret) + 1)
               /\ ~Contains(w, t + 1) =>
                      point_within_slot(calc, t + 1) = Some(0)
    /\ (probe.op = "checked_point_within_slot"
            /\ calc.slot_duration > 0) =>
           LET slot == probe.a
               t    == probe.b
           IN  /\ ~probe.panic
               /\ probe.ret # None <=> slot_containing(calc, t) = Some(slot)
               /\ probe.ret # None =>
                      /\ t >= calc.start_timestamp
                      /\ probe.ret = Some(SinceSlotStart(t))
                      /\ probe.ret = point_within_slot(calc, t)

\* The last second of the second slot of a chain that starts off the grid.
C29_Witness ==
    /\ probe.op = "checked_point_within_slot"
    /\ calc.slot_duration = 3
    /\ calc.start_timestamp % calc.slot_duration # 0
    /\ probe.a = calc.slot_offset + 2
    /\ probe.b = calc.start_timestamp + 5
    /\ probe.ret = Some(2)

\* C21: point_within_slot(t) returns None for every timestamp before the
\* chain's start (t < start_timestamp): it has a result only where
\* slot_containing(t) has one.
C21_NoPointBeforeChainStart ==
    (probe.op = "point_within_slot" /\ calc.slot_duration > 0) =>
        /\ ~probe.panic
        /\ probe.a < calc.start_timestamp => probe.ret = None
        /\ IsSome(probe.ret) => IsSome(slot_containing(calc, probe.a))

\* What the code does: before the chain's start the point is missing only
\* below start_timestamp mod slot_duration, that is for fewer than
\* slot_duration timestamps; from there on it is given, slot or no slot.
C21_PointGivenFromUtcOrigin ==
    (probe.op = "point_within_slot" /\ calc.slot_duration > 0) =>
        /\ probe.ret = None => probe.a < calc.slot_duration
        /\ (/\ probe.a < calc.start_timestamp
            /\ probe.a >= calc.start_timestamp % calc.slot_duration) =>
               /\ IsSome(probe.ret)
               /\ slot_containing(calc, probe.a) = None

----------------------------------------------------------------------------
(* Claims about the authorization check and the layer, checked under Spec. *)

\* The roster entry assigned to the slot that contains timestamp t.
Assigned(t) ==
    builders[(Unwrap(slot_containing(calc, t)) % Len(builders)) + 1]
HasAssigned(t) ==
    /\ Len(builders) > 0
    /\ calc.slot_duration > 0
    /\ IsSome(slot_containing(calc, t))

\* The point within the slot at timestamp t and the configured window.
PointAt(t) == Unwrap(point_within_slot(calc, t))
InWindow(t) ==
    /\ config.block_query_start <= PointAt(t)
    /\ PointAt(t) <= config.block_query_cutoff

\* The check of the request in hand has read the point within the slot.
PointRead == IsSome(req.tPoint)
BuilderRead == IsSome(req.tBuilder)

\* C1: single writer per slot.  All Permitted decisions taken while the
\* clock is inside one slot carry one and the same identity, the roster
\* entry at index(that slot); a request whose clock readings fall inside one
\* slot is Permitted only for that identity.
C1_SingleWriterPerSlot ==
    /\ Cardinality(granted) <= 1
    /\ \A sub \in granted : HasAssigned(clock) /\ sub = Assigned(clock)
    /\ (/\ req.decision = "Ok"
        /\ slot_containing(calc, Unwrap(req.tPoint))
               = slot_containing(calc, Unwrap(req.tBuilder))) =>
           /\ HasAssigned(Unwrap(req.tPoint))
           /\ req.sub = Assigned(Unwrap(req.tPoint))
           /\ req.sub = builder_at(builders,
                                   index(builders, calc, Unwrap(req.tPoint)))

C1_Witness ==
    /\ req.decision = "Ok"
    /\ Len(builders) >= 2
    /\ Unwrap(req.tPoint) < Unwrap(req.tBuilder)
    /\ slot_containing(calc, Unwrap(req.tPoint))
           = slot_containing(calc, Unwrap(req.tBuilder))
    /\ granted = {req.sub}
    /\ req.sub = "b"

\* C8: the three tests have a fixed precedence.  A point before
\* block_query_start is TooEarly whatever the identity; otherwise a point
\* after block_query_cutoff is TooLate whatever the identity; NotPermissioned
\* is returned only for a point inside the window and a mismatching identity.
C8_TestsInFixedOrder ==
    PointRead =>
        LET t == Unwrap(req.tPoint)
        IN  /\ IsSome(point_within_slot(calc, t))
            /\ PointAt(t) < config.block_query_start =>
                   req.decision = "ActionAttemptTooEarly"
            /\ (/\ PointAt(t) >= config.block_query_start
                /\ PointAt(t) > config.block_query_cutoff) =>
                   req.decision = "ActionAttemptTooLate"
            /\ req.decision = "NotPermissioned" =>
                   /\ InWindow(t)
                   /\ BuilderRead
                   /\ HasAssigned(Unwrap(req.tBuilder))
                   /\ req.sub # Assigned(Unwrap(req.tBuilder))

C8_Witness ==
    /\ PointRead
    /\ PointAt(Unwrap(req.tPoint)) < config.block_query_start
    /\ PointAt(Unwrap(req.tPoint)) > config.block_query_cutoff
    /\ HasAssigned(Unwrap(req.tPoint))
    /\ req.sub = Assigned(Unwrap(req.tPoint))
    /\ req.decision = "ActionAttemptTooEarly"

BadHeader(h) ==
    \/ h = None
    \/ to_str(Unwrap(h)) = None
    \/ to_str(Unwrap(h)) = Some("")
ClassifiedResponse(h) ==
    IF h = None THEN ApiError_missing_header
    ELSE IF to_str(Unwrap(h)) = None THEN ApiError_invalid_encoding
    ELSE ApiError_header_empty

\* C10: the layer classifies the identity header before any slot or roster
\* check: no header is answered MissingIdentity, an undecodable one
\* MalformedIdentity, an empty one EmptyIdentity, and in these cases the
\* authorization check is never reached.
C10_IdentityClassifiedFirst ==
    (req.pc = "done" /\ req.via = "layer" /\ BadHeader(req.header)) =>
        /\ req.response = ClassifiedResponse(req.header)
        /\ req.decision = "none"
        /\ ~PointRead

\* The same for the calls whose span construction does not abort.
C10_ClassifiedFirstUnlessAborted ==
    (/\ req.pc = "done"
     /\ req.via = "layer"
     /\ BadHeader(req.header)
     /\ ~req.panicked) =>
        /\ req.response = ClassifiedResponse(req.header)
        /\ req.decision = "none"
        /\ ~PointRead

\* The responses the layer makes itself.
LayerResponses ==
    {ApiError_missing_header, ApiError_invalid_encoding, ApiError_header_empty}
        \cup {ApiError_permission_denied(builder_permissioning_hint(e)) :
                  e \in {"ActionAttemptTooEarly", "ActionAttemptTooLate",
                         "NotPermissioned"}}

\* C11: the inner handler is called if and only if the decision is
\* Permitted, then exactly once, with the original request, and its result is
\* returned as it is; on every rejection the layer answers itself and the
\* inner handler is not called.
C11_InnerIffPermitted ==
    /\ req.inner_calls <= 1
    /\ req.inner_calls = 1 =>
           /\ req.via = "layer"
           /\ req.decision = "Ok"
           /\ req.forwarded = Some(req.header)
           /\ req.response = Unwrap(req.inner_response)
    /\ (req.pc = "done" /\ req.via = "layer" /\ req.decision = "Ok") =>
           req.inner_calls = 1
    /\ (/\ req.pc = "done"
        /\ req.via = "layer"
        /\ ~req.panicked
        /\ req.decision # "Ok") =>
           /\ req.inner_calls = 0
           /\ req.inner_response = None
           /\ req.response \in LayerResponses
           /\ BadHeader(req.header) =>
                  req.response = ClassifiedResponse(req.header)
           /\ ~BadHeader(req.header) =>
                  req.response = ApiError_permission_denied(
                                     builder_permissioning_hint(req.decision))
    /\ req.panicked => req.inner_calls = 0

C11_Witness ==
    /\ req.pc = "done"
    /\ req.via = "layer"
    /\ req.decision = "Ok"
    /\ req.inner_calls = 1
    /\ req.response = InnerFailure
    /\ req.header = Some(HeaderValue("b", TRUE))
    /\ req.forwarded = Some(req.header)

\* The rejection reason of a finished call, and the response the layer
\* renders for each reason.
Reasons ==
    {"MissingIdentity", "MalformedIdentity", "EmptyIdentity",
     "TooEarly", "TooLate", "NotTheAssignedIdentity"}
Render(reason) ==
    CASE reason = "MissingIdentity"   -> ApiError_missing_header
      [] reason = "MalformedIdentity" -> ApiError_invalid_encoding
      [] reason = "EmptyIdentity"     -> ApiError_header_empty
      [] reason = "TooEarly" ->
             ApiError_permission_denied(
                 builder_permissioning_hint("ActionAttemptTooEarly"))
      [] reason = "TooLate" ->
             ApiError_permission_denied(
                 builder_permissioning_hint("ActionAttemptTooLate"))
      [] reason = "NotTheAssignedIdentity" ->
             ApiError_permission_denied(
                 builder_permissioning_hint("NotPermissioned"))
ReasonOf(r) ==
    IF r.header = None THEN "MissingIdentity"
    ELSE IF to_str(Unwrap(r.header)) = None THEN "MalformedIdentity"
    ELSE IF to_str(Unwrap(r.header)) = Some("") THEN "EmptyIdentity"
    ELSE IF r.decision = "ActionAttemptTooEarly" THEN "TooEarly"
    ELSE IF r.decision = "ActionAttemptTooLate" THEN "TooLate"
    ELSE "NotTheAssignedIdentity"
\* What a client can tell responses apart by.
Visible(response) == <<response.status, response.error, response.hint>>
Rejected(r) ==
    /\ r.pc = "done"
    /\ r.via = "layer"
    /\ ~r.panicked
    /\ r.decision # "Ok"

\* C12: each of the six rejection reasons is rendered by the layer as a
\* response that differs from the responses of the other five in status
\* code, error code or hint, and none of them is a success response such as
\* a Permitted request gets.
C12_RejectionsDistinguishable ==
    /\ Rejected(req) =>
           /\ req.response = Render(ReasonOf(req))
           /\ \A other \in Reasons \ {ReasonOf(req)} :
                  Visible(Render(other)) # Visible(req.response)
           /\ req.response.status \in 400 .. 499
    /\ (req.pc = "done" /\ req.via = "layer" /\ req.decision = "Ok") =>
           /\ req.response = Unwrap(req.inner_response)
           /\ req.response \notin {Render(reason) : reason \in Reasons}

C12_Witness ==
    /\ Rejected(req)
    /\ ReasonOf(req) = "TooLate"
    /\ req.response.status = 403
    /\ req.response.hint = Some("Action attempted too late in the slot.")
    /\ Visible(req.response) # Visible(Render("TooEarly"))
    /\ Visible(req.response) # Visible(Render("NotTheAssignedIdentity"))

\* C15: after construction block_query_start and block_query_cutoff lie in
\* [0, slot_duration] of the slot calculator in use, for every
\* slot_duration > 0; inputs outside that range are clamped into it and
\* inputs inside it are kept.
C15_WindowClampedToSlotDuration ==
    calc.slot_duration > 0 =>
        /\ block_query_start(config) \in 0 .. calc.slot_duration
        /\ block_query_cutoff(config) \in 0 .. calc.slot_duration
        /\ \A v \in 0 .. calc.slot_duration :
               /\ block_query_start(SlotAuthzConfig_new(0, 0, v)) = v
               /\ block_query_cutoff(SlotAuthzConfig_new(0, v, 0)) = v

\* What the construction does guarantee: both values lie in [0, 11]
\* whatever the slot duration, and inputs in that range are kept.
C15_WindowClampedToEleven ==
    /\ block_query_start(config) \in 0 .. ClampMax
    /\ block_query_cutoff(config) \in 0 .. ClampMax
    /\ \A v \in 0 .. (ClampMax + 1) \cup {U8Max} :
           LET cfg == SlotAuthzConfig_new(v, v, v)
           IN  /\ block_query_start(cfg) = IF v <= ClampMax THEN v ELSE ClampMax
               /\ block_query_cutoff(cfg) = block_query_start(cfg)

\* The slot the clock is in has an instant at which the window test refuses
\* every request.
SlotHasMargin ==
    LET w == slot_window(calc, Unwrap(slot_containing(calc, clock)))
    IN  \E t \in w.start .. (w.end - 1) :
            window_test(config, calc, t)
                \in {"ActionAttemptTooEarly", "ActionAttemptTooLate"}

\* C16: for every configuration that can be constructed the served band
\* [block_query_start, block_query_cutoff] is strictly narrower than the
\* slot: every slot has a point within 0..slot_duration-1 at which every
\* request, the assigned builder's too, is refused as TooEarly or TooLate.
C16_BandNarrowerThanSlot ==
    (calc.slot_duration > 0 /\ IsSome(slot_containing(calc, clock))) =>
        SlotHasMargin

\* What holds instead: a slot has such a point exactly when the configured
\* band leaves one out.
C16_MarginOnlyIfConfigured ==
    (calc.slot_duration > 0 /\ IsSome(slot_containing(calc, clock))) =>
        (SlotHasMargin <=>
            \/ block_query_start(config) > 0
            \/ block_query_cutoff(config) < calc.slot_duration - 1)

\* C24: block_query_cutoff = c means that requests are refused only during
\* the last c seconds of each slot: with block_query_cutoff = 1 in a
\* 12-second slot exactly the last second (point 11) is refused as too late
\* and every earlier point at or after block_query_start is serviced.
C24_CutoffCountsFromSlotEnd ==
    (PointRead /\ req.decision # "none" /\ calc.slot_duration > 0) =>
        LET point == PointAt(Unwrap(req.tPoint))
            late  == req.decision = "ActionAttemptTooLate"
        IN  (/\ calc.slot_duration = ETHEREUM_SLOT_TIME
             /\ block_query_cutoff(config) = 1
             /\ point >= block_query_start(config)) =>
                (late <=> point >= calc.slot_duration
                                      - block_query_cutoff(config))

\* What the code does: block_query_cutoff is the last point of the slot
\* that is serviced; with block_query_cutoff = 1 in a 12-second slot the
\* points 2..11 are refused as too late.
C24_CutoffIsLastServicedPoint ==
    (PointRead /\ req.decision # "none" /\ calc.slot_duration > 0) =>
        LET point == PointAt(Unwrap(req.tPoint))
            late  == req.decision = "ActionAttemptTooLate"
        IN  /\ point >= block_query_start(config) =>
                   (late <=> point > block_query_cutoff(config))
            /\ (/\ calc.slot_duration = ETHEREUM_SLOT_TIME
                /\ block_query_cutoff(config) = 1
                /\ point >= block_query_start(config)) =>
                   (late <=> point \in 2 .. (ETHEREUM_SLOT_TIME - 1))

\* A deployment with a roster and a positive slot duration.
WellFormed == Len(builders) > 0 /\ calc.slot_duration > 0

\* C22: a request processed while the clock is before the chain's start is
\* an expected outcome: the authorization check and the layer complete with
\* a typed result or response and never abort, at any clock value.
C22_NoAbortBeforeChainStart ==
    WellFormed => ~req.panicked

\* What the code does: in a well-formed deployment a call aborts only
\* before the chain's start, and there every call of the layer aborts while
\* building its span.
C22_AbortsOnlyBeforeChainStart ==
    WellFormed =>
        /\ req.panicked => clock < calc.start_timestamp
        /\ (/\ req.via = "layer"
            /\ req.pc \notin {"span", "idle"}
            /\ ~req.panicked) => clock >= calc.start_timestamp

----------------------------------------------------------------------------
(* Claims about replicas, checked under SpecReplicas.                      *)

\* The check of the request in hand read the clock at instant t only.
FrozenAt(t) ==
    /\ req.decision # "none"
    /\ req.tPoint = Some(t)
    /\ BuilderRead => req.tBuilder = Some(t)

\* C13: the decision is a function of the configuration, the roster, the
\* time and the claimed identity only.  Two evaluations at one frozen instant
\* with the same identity, on this replica or on another one holding the
\* same configuration, give the same decision, whatever was requested and
\* granted before.
C13_Deterministic ==
    /\ FrozenAt(clock) =>
           req.decision = is_builder_permissioned(
                              builders, config, calc, req.sub, clock)
    /\ (/\ probe.op = "is_builder_permissioned"
        /\ FrozenAt(probe.b)
        /\ req.sub = probe.a) =>
           /\ ~probe.panic
           /\ probe.ret = Some(req.decision)

C13_Witness ==
    /\ probe.op = "is_builder_permissioned"
    /\ FrozenAt(probe.b)
    /\ req.sub = probe.a
    /\ req.sub = "b"
    /\ req.decision = "NotPermissioned"
    /\ granted = {"a"}
    /\ probe.ret = Some("NotPermissioned")

----------------------------------------------------------------------------
(* Claims about concurrent requests, checked under SpecConcurrent.         *)

\* The decision request r gets when it is processed alone and reads the
\* clock at the instants r read it.
AloneDecision(r) ==
    IF BadHeader(r.header) /\ r.via = "layer" THEN "none"
    ELSE IF window_test(config, calc, Unwrap(r.tPoint)) # "Ok"
         THEN window_test(config, calc, Unwrap(r.tPoint))
         ELSE identity_test(builders, calc, r.sub, Unwrap(r.tBuilder))
\* The answer of the layer to r when it is processed alone.
AloneResponse(r) ==
    IF BadHeader(r.header) THEN ClassifiedResponse(r.header)
    ELSE IF AloneDecision(r) = "Ok" THEN Unwrap(r.inner_response)
    ELSE ApiError_permission_denied(
             builder_permissioning_hint(AloneDecision(r)))
AsAlone(r) ==
    (r.pc = "done" /\ ~r.panicked) =>
        /\ r.decision = AloneDecision(r)
        /\ r.via = "layer" => r.response = AloneResponse(r)
        /\ r.inner_calls = IF r.decision = "Ok" /\ r.via = "layer"
                           THEN 1 ELSE 0

\* C23: concurrent requests do not interfere.  In every interleaving each
\* request ends as it would when processed alone with the same clock
\* readings, and no step of any request changes the shared roster, window
\* bounds or slot calculator.
C23_NoInterference ==
    /\ [](AsAlone(req) /\ AsAlone(peer))
    /\ [][UNCHANGED <<calc, config, builders>>]_vars

C23_Witness ==
    /\ req.pc = "done"
    /\ peer.pc = "done"
    /\ req.via = "layer"
    /\ req.tPoint = peer.tPoint
    /\ IsSome(req.tBuilder)
    /\ IsSome(peer.tBuilder)
    /\ Unwrap(req.tBuilder) < Unwrap(peer.tBuilder)
    /\ req.sub = peer.sub
    /\ req.decision = "Ok"
    /\ peer.decision = "NotPermissioned"

\* C27: one check refers to one instant.  A request is Permitted only if
\* the claimed identity is the builder assigned to the slot in which its
\* point passed the window test, also when the clock advances, possibly
\* across a slot boundary, between the read for the window test and the
\* read that selects the current builder.
C27_OneInstantPerCheck ==
    (req.decision = "Ok" /\ WellFormed) =>
        /\ HasAssigned(Unwrap(req.tPoint))
        /\ InWindow(Unwrap(req.tPoint))
        /\ req.sub = Assigned(Unwrap(req.tPoint))

\* What the code does: the window test is made on the first reading of the
\* clock and the identity test on a later one, which may lie in a later
\* slot.
C27_IdentityOfLaterRead ==
    (req.decision = "Ok" /\ WellFormed) =>
        /\ BuilderRead
        /\ Unwrap(req.tPoint) <= Unwrap(req.tBuilder)
        /\ InWindow(Unwrap(req.tPoint))
        /\ HasAssigned(Unwrap(req.tBuilder))
        /\ req.sub = Assigned(Unwrap(req.tBuilder))

\* The stored bounds of the window are in reverse order.
StartAfterCutoff == block_query_start(config) > block_query_cutoff(config)

\* C28: clamping does not order the two bounds.  A configuration whose
\* block_query_start is above its block_query_cutoff is accepted; under it no
\* request is permitted at any time for any identity: the check answers
\* TooEarly for a point before the start and TooLate for every other point,
\* and never NotPermissioned.
C28_ReversedWindowRefusesAll ==
    StartAfterCutoff =>
        /\ granted = {}
        /\ req.decision \notin {"Ok", "NotPermissioned"}
        /\ req.inner_calls = 0
        /\ ~BuilderRead
        /\ (PointRead /\ req.decision # "none") =>
               req.decision =
                   IF PointAt(Unwrap(req.tPoint)) < block_query_start(config)
                   THEN "ActionAttemptTooEarly"
                   ELSE "ActionAttemptTooLate"
        /\ (req.pc = "done" /\ req.via = "layer" /\ PointRead) =>
               req.response = ApiError_permission_denied(
                                  builder_permissioning_hint(req.decision))

\* The assigned builder asks at a point from the start on, through the
\* layer, and is told it is too late.
C28_Witness ==
    /\ StartAfterCutoff
    /\ config = SlotAuthzConfig_new(0, 0, 1)
    /\ req.pc = "done"
    /\ req.via = "layer"
    /\ PointRead
    /\ HasAssigned(Unwrap(req.tPoint))
    /\ req.sub = Assigned(Unwrap(req.tPoint))
    /\ PointAt(Unwrap(req.tPoint)) = block_query_start(config)
    /\ req.decision = "ActionAttemptTooLate"

----------------------------------------------------------------------------
(* SpecEnv: loading the metrics port from the environment                  *)
(* (src/utils/metrics.rs, src/utils/from_env.rs).  The value of an         *)
(* environment variable is None when the variable is not set, and          *)
(* otherwise the sequence of its characters.                               *)

MaxEnvLen == 5
U16Max == 65535
DefaultMetricsPort == 9000

\* The characters the values are drawn from: digits, a sign and a letter.
EnvChars == {"0", "6", "9", "+", "x"}
EnvStrings == UNION {[1..k -> EnvChars] : k \in 0..MaxEnvLen}
EnvValues == {None} \cup {Some(s) : s \in EnvStrings}

\* Result<T, E>: Ok(v) or Err(e), e the name of the error's variant.
Ok(v) == [ok |-> TRUE, v |-> v, e |-> ""]
Err(e) == [ok |-> FALSE, v |-> 0, e |-> e]

\* char::to_digit(10), -1 standing for None.
to_digit(c) ==
    CASE c = "0" -> 0 [] c = "1" -> 1 [] c = "2" -> 2 [] c = "3" -> 3
      [] c = "4" -> 4 [] c = "5" -> 5 [] c = "6" -> 6 [] c = "7" -> 7
      [] c = "8" -> 8 [] c = "9" -> 9 [] OTHER -> -1

\* The digits of an unsigned decimal number, accumulated with checked
\* multiplication and addition in 16 bits.
RECURSIVE parse_digits(_, _)
parse_digits(s, acc) ==
    IF s = <<>>
    THEN Ok(acc)
    ELSE LET d == to_digit(Head(s))
         IN  IF d < 0
             THEN Err("InvalidDigit")
             ELSE IF acc * 10 + d > U16Max
                  THEN Err("PosOverflow")
                  ELSE parse_digits(Tail(s), acc * 10 + d)

\* <u16 as FromStr>::from_str, which `s.parse()` calls: an optional leading
\* "+", then at least one digit; no blanks, no "-".
u16_from_str(s) ==
    IF s = <<>>
    THEN Err("Empty")
    ELSE LET digits == IF Head(s) = "+" THEN Tail(s) ELSE s
         IN  IF digits = <<>>
             THEN Err("InvalidDigit")
             ELSE parse_digits(digits, 0)

\* parse_env_if_present::<u16>, which is u16::from_env_var.
parse_env_if_present(env) ==
    IF ~IsSome(env)
    THEN Err("EnvError")
    ELSE IF Unwrap(env) = <<>>
         THEN Err("Empty")
         ELSE LET parsed == u16_from_str(Unwrap(env))
              IN  IF parsed.ok THEN parsed ELSE Err("ParseError")

\* impl From<Option<u16>> for MetricsConfig.
MetricsConfig_from_option(port) ==
    [port |-> IF IsSome(port) THEN Unwrap(port) ELSE DefaultMetricsPort]

\* impl From<u16> for MetricsConfig.
MetricsConfig_from_u16(port) == [port |-> port]

\* MetricsConfig::from_env: u16::from_env_var(METRICS_PORT).map(Self::from).
MetricsConfig_from_env(env) ==
    LET port == parse_env_if_present(env)
    IN  IF port.ok THEN Ok(MetricsConfig_from_u16(port.v)) ELSE port

\* init_metrics: unwraps the configuration, then installs the exporter on
\* its port; `installs` is whether the exporter can be installed (the port
\* is free).  The port it listens on when it returns.
init_metrics_panics(env, installs) ==
    \/ ~MetricsConfig_from_env(env).ok
    \/ ~installs
init_metrics(env, installs) ==
    IF init_metrics_panics(env, installs)
    THEN None
    ELSE Some(MetricsConfig_from_env(env).v.port)

InitEnv ==
    /\ calc = SlotCalculator_new(0, 0, 1)
    /\ builders = Roster(0)
    /\ config = SlotAuthzConfig_new(0, 0, 0)
    /\ clock = 0
    /\ req = IdleReq
    /\ peer = IdleReq
    /\ granted = {}
    /\ probe = NoProbe
    /\ auth = NoAuth

EnvFrame ==
    /\ probe.op = "none"
    /\ UNCHANGED <<calc, config, builders, clock, req, granted, peer, auth>>

EnvDone ==
    /\ probe.op # "none"
    /\ probe' = NoProbe
    /\ UNCHANGED <<calc, config, builders, clock, req, granted, peer, auth>>

ProbeMetricsConfigFromEnv ==
    \E env \in EnvValues :
        /\ EnvFrame
        /\ probe' = Returned("MetricsConfig::from_env", env, FALSE, FALSE,
                             MetricsConfig_from_env(env))

ProbeInitMetrics ==
    \E env \in EnvValues, installs \in BOOLEAN :
        /\ EnvFrame
        /\ probe' = Returned("init_metrics", env, installs,
                             init_metrics_panics(env, installs),
                             init_metrics(env, installs))

NextEnv ==
    \/ ProbeMetricsConfigFromEnv
    \/ ProbeInitMetrics
    \/ EnvDone

SpecEnv == InitEnv /\ [][NextEnv]_vars

\* The variable is missing, empty, or not the decimal text of a port.
Unparseable(env) ==
    \/ ~IsSome(env)
    \/ ~u16_from_str(Unwrap(env)).ok

\* C25: when METRICS_PORT is missing, empty or unparseable,
\* MetricsConfig::from_env yields port 9000 and init_metrics proceeds with
\* it (it aborts only when the exporter cannot be installed).
C25_MetricsPortDefaults ==
    /\ (probe.op = "MetricsConfig::from_env" /\ Unparseable(probe.a)) =>
           /\ probe.ret.ok
           /\ probe.ret.v.port = DefaultMetricsPort
    /\ (probe.op = "init_metrics" /\ Unparseable(probe.a) /\ probe.b) =>
           /\ ~probe.panic
           /\ probe.ret = Some(DefaultMetricsPort)

\* What the code does: the port is the one the variable spells, and a
\* missing, empty or unparseable variable is an error that init_metrics
\* aborts on; the default is never taken.
C25_MetricsPortRequired ==
    /\ probe.op = "MetricsConfig::from_env" =>
           /\ probe.ret.ok <=> ~Unparseable(probe.a)
           /\ probe.ret.ok =>
                  probe.ret.v = [port |-> u16_from_str(Unwrap(probe.a)).v]
    /\ probe.op = "init_metrics" =>
           /\ probe.panic <=> (Unparseable(probe.a) \/ ~probe.b)
           /\ ~probe.panic =>
                  probe.ret = Some(u16_from_str(Unwrap(probe.a)).v)

\* The values the parser accepts include the default port itself and a
\* signed one; five digits may exceed 16 bits.
C25_ParserCases ==
    /\ u16_from_str(<<"9", "0", "0", "0">>) = Ok(9000)
    /\ u16_from_str(<<"+", "6", "0">>) = Ok(60)
    /\ u16_from_str(<<"0", "0", "9">>) = Ok(9)
    /\ u16_from_str(<<"6", "6", "0", "0", "0">>).e = "PosOverflow"
    /\ u16_from_str(<<"6", "0", "0", "0", "0">>) = Ok(60000)
    /\ u16_from_str(<<"+">>).e = "InvalidDigit"
    /\ u16_from_str(<<"9", "x">>).e = "InvalidDigit"

----------------------------------------------------------------------------
(* SpecAuth: the OAuth token (src/perms/oauth.rs) and the transaction-cache *)
(* client that reads it (src/perms/tx_cache.rs).  The token lives in a      *)
(* tokio::sync::watch channel of Option<Token>: the Authenticator holds the *)
(* Sender, every SharedToken a Receiver.  A token is named by the number of *)
(* the fetch that produced it.  Receiver::wait_for(Option::is_some) returns *)
(* at once when the value is Some, fails with RecvError when the value is   *)
(* None and the Sender is gone, and is pending otherwise.  The readers of   *)
(* this crate release the value before they await again, so a read is one   *)
(* step.                                                                    *)

MaxFetches == 2

\* Authenticator::new: watch::channel(None).0 is kept by the Authenticator.
Authenticator_new ==
    [NoAuth EXCEPT !.origin = "Authenticator::new",
                   !.sender = "authenticator", !.task = "new"]

\* SharedToken::empty: watch::channel(None).1, the Sender is dropped.
SharedToken_empty ==
    [NoAuth EXCEPT !.origin = "SharedToken::empty", !.sender = "dropped"]

\* Authenticator::is_authenticated, SharedToken::is_authenticated.
is_authenticated(a) == IsSome(a.token)

\* Authenticator::set_token: send_replace(Some(token)).
set_token(a, token) == [a EXCEPT !.token = Some(token)]

\* A counter that stops counting at MaxFetches.
Counted(n) == IF n < MaxFetches THEN n + 1 ELSE n

\* Authenticator::authenticate: fetch_oauth_token()?, then set_token.
\* `fetched` is whether the token endpoint answered with a token.
\* Mutant: a failed fetch publishes None.
authenticate_publishes_failure(a, fetched) ==
    LET n == Counted(a.fetches)
    IN  IF fetched
        THEN [set_token(a, n) EXCEPT !.fetches = n, !.last = "ok"]
        ELSE [a EXCEPT !.token = None, !.fetches = n,
                       !.errs = Counted(a.errs), !.last = "err"]
authenticate(a, fetched) ==
    LET n == Counted(a.fetches)
    IN  IF fetched
        THEN [set_token(a, n) EXCEPT !.fetches = n, !.last = "ok"]
        ELSE [a EXCEPT !.fetches = n, !.errs = Counted(a.errs),
                       !.last = "err"]

\* Receiver::wait_for(Option::is_some): Some(Ok(token)), Some(Err(..)),
\* or None while it is pending.
wait_for(a) ==
    IF IsSome(a.token)
    THEN Some(Ok(Unwrap(a.token)))
    ELSE IF a.sender = "dropped"
         THEN Some(Err("RecvError"))
         ELSE None

\* SharedToken::wait: wait_for(..).await.map(drop).
SharedToken_wait(a) ==
    LET got == wait_for(a)
    IN  IF IsSome(got) /\ Unwrap(got).ok THEN Some(Ok(0)) ELSE got

\* SharedToken::secret: token().await?.access_token().secret().to_owned().
SharedToken_secret(a) == wait_for(a)

\* A call that polls `result`: it returns when the result is there.
Polled(call, result) ==
    IF IsSome(result)
    THEN [call EXCEPT !.pc = "done", !.ret = result]
    ELSE [call EXCEPT !.pc = "pending", !.waited = TRUE]

\* BuilderTxCache::get_inner_with_token up to the request: the secret is
\* awaited first, and its error returned as TokenRetrieval.
get_inner_with_token(call, a) ==
    LET secret == SharedToken_secret(a)
    IN  IF ~IsSome(secret)
        THEN [call EXCEPT !.pc = "pending", !.waited = TRUE]
        ELSE IF Unwrap(secret).ok
             THEN [call EXCEPT !.pc = "send"]
             ELSE [call EXCEPT !.pc = "done",
                               !.ret = Some(Err("TokenRetrieval"))]

\* What the request comes to: the page of bundles, or a TxCacheError.
TxCacheAnswers == {"Ok", "NotOurSlot", "Reqwest"}
Answered(answer) ==
    IF answer = "Ok" THEN Some(Ok(0)) ELSE Some(Err(answer))

AuthFrame ==
    UNCHANGED <<calc, config, builders, clock, req, peer, granted, probe>>

InitAuth ==
    /\ calc = SlotCalculator_new(0, 0, 1)
    /\ builders = Roster(0)
    /\ config = SlotAuthzConfig_new(0, 0, 0)
    /\ clock = 0
    /\ req = IdleReq
    /\ peer = IdleReq
    /\ granted = {}
    /\ probe = NoProbe
    /\ auth \in {Authenticator_new, SharedToken_empty}

\* Authenticator::spawn (or awaiting its IntoFuture): the loop starts.
Spawn ==
    /\ auth.task = "new"
    /\ auth' = [auth EXCEPT !.task = "fetch"]
    /\ AuthFrame

\* authenticate() called on the Authenticator before it is spawned.
AuthenticateDirect ==
    \E fetched \in BOOLEAN :
        /\ auth.task = "new"
        /\ auth' = authenticate(auth, fetched)
        /\ AuthFrame

\* The Authenticator is dropped without being spawned; its Sender goes.
DropAuthenticator ==
    /\ auth.task = "new"
    /\ auth' = [auth EXCEPT !.task = "none", !.sender = "dropped"]
    /\ AuthFrame

\* task_future: one turn of the loop up to the sleep.
Refresh ==
    \E fetched \in BOOLEAN :
        /\ auth.task = "fetch"
        /\ auth' = [authenticate(auth, fetched) EXCEPT !.task = "sleep"]
        /\ AuthFrame

\* task_future: the sleep is over, the loop turns.
Wake ==
    /\ auth.task = "sleep"
    /\ auth' = [auth EXCEPT !.task = "fetch"]
    /\ AuthFrame

CallWait ==
    /\ auth.origin # "none"
    /\ auth.wait.pc = "idle"
    /\ auth' = [auth EXCEPT !.wait = Polled(@, SharedToken_wait(auth))]
    /\ AuthFrame

WakeWait ==
    /\ auth.wait.pc = "pending"
    /\ IsSome(SharedToken_wait(auth))
    /\ auth' = [auth EXCEPT !.wait = Polled(@, SharedToken_wait(auth))]
    /\ AuthFrame

CallSecret ==
    /\ auth.origin # "none"
    /\ auth.secret.pc = "idle"
    /\ auth' = [auth EXCEPT !.secret = Polled(@, SharedToken_secret(auth))]
    /\ AuthFrame

WakeSecret ==
    /\ auth.secret.pc = "pending"
    /\ IsSome(SharedToken_secret(auth))
    /\ auth' = [auth EXCEPT !.secret = Polled(@, SharedToken_secret(auth))]
    /\ AuthFrame

\* BuilderTxCache::get_bundles(None).
GetBundles ==
    /\ auth.origin # "none"
    /\ auth.get_bundles.pc = "idle"
    /\ auth' = [auth EXCEPT !.get_bundles = get_inner_with_token(@, auth)]
    /\ AuthFrame

WakeGetBundles ==
    /\ auth.get_bundles.pc = "pending"
    /\ IsSome(SharedToken_secret(auth))
    /\ auth' = [auth EXCEPT !.get_bundles = get_inner_with_token(@, auth)]
    /\ AuthFrame

\* The GET request goes out with the secret as bearer.
SendGetBundles ==
    /\ auth.get_bundles.pc = "send"
    /\ auth' = [auth EXCEPT !.get_bundles.pc = "sent",
                            !.requests = @ + 1]
    /\ AuthFrame

ReceiveGetBundles ==
    \E answer \in TxCacheAnswers :
        /\ auth.get_bundles.pc = "sent"
        /\ auth' = [auth EXCEPT !.get_bundles.pc = "done",
                                !.get_bundles.ret = Answered(answer)]
        /\ AuthFrame

NextAuth ==
    \/ Spawn
    \/ AuthenticateDirect
    \/ DropAuthenticator
    \/ Refresh
    \/ Wake
    \/ CallWait
    \/ WakeWait
    \/ CallSecret
    \/ WakeSecret
    \/ GetBundles
    \/ WakeGetBundles
    \/ SendGetBundles
    \/ ReceiveGetBundles

SpecAuth == InitAuth /\ [][NextAuth]_vars

\* The timer of the sleep fires, and a task waiting on the channel is woken
\* when the value it waits for is there (send_replace notifies the
\* receivers, and the value is never taken back).  Nothing is assumed about
\* the token endpoint: a fetch may take for ever.
SpecAuthLive ==
    /\ SpecAuth
    /\ WF_vars(Wake)
    /\ WF_vars(WakeWait)
    /\ WF_vars(WakeSecret)
    /\ WF_vars(WakeGetBundles)

\* The client was built on SharedToken::empty() and get_bundles returned.
EmptyTokenReturned ==
    /\ auth.origin = "SharedToken::empty"
    /\ auth.get_bundles.pc = "done"

\* C26: a BuilderTxCache built with SharedToken::empty() still issues its
\* request: get_bundles(None) fails with
\* BuilderTxCacheError::TxCache(TxCacheError::NotOurSlot), not with a
\* token-retrieval error and not by waiting for a token for ever.
C26_EmptyTokenStillRequests ==
    /\ auth.origin = "SharedToken::empty" =>
           auth.get_bundles.pc # "pending"
    /\ EmptyTokenReturned =>
           /\ auth.requests = 1
           /\ auth.get_bundles.ret = Some(Err("NotOurSlot"))

\* What the code does: the secret is awaited before the request is built;
\* on the closed, empty channel it fails at once, get_bundles returns
\* TokenRetrieval and no request is sent.
C26_EmptyTokenFailsRetrieval ==
    /\ auth.origin = "SharedToken::empty" =>
           /\ auth.get_bundles.pc \in {"idle", "done"}
           /\ auth.requests = 0
    /\ EmptyTokenReturned =>
           /\ auth.get_bundles.ret = Some(Err("TokenRetrieval"))
           /\ ~auth.get_bundles.waited

\* A request is sent only with a token in the channel.
C26_RequestsCarryToken ==
    auth.get_bundles.pc \in {"send", "sent"} => is_authenticated(auth)

\* C30: token publication is monotone and the refresh loop never stops on
\* an error.  Once a token is published is_authenticated stays true; a
\* failed refresh keeps the previous token; after every attempt, failed or
\* not, the task sleeps and tries again; so once a fetch has succeeded
\* every pending SharedToken::wait and SharedToken::secret resolves.
C30_TokenPublication ==
    /\ [][is_authenticated(auth) => is_authenticated(auth')]_vars
    /\ [][auth'.token # auth.token => auth'.last = "ok"]_vars
    /\ [][auth.task = "fetch" => auth'.task \in {"fetch", "sleep"}]_vars
    /\ [][(auth.task = "fetch" /\ auth'.task = "sleep"
              /\ auth'.last = "err") => auth'.token = auth.token]_vars
    /\ (auth.task = "sleep") ~> (auth.task = "fetch")
    /\ (auth.wait.pc = "pending" /\ is_authenticated(auth))
           ~> (auth.wait.pc = "done" /\ auth.wait.ret = Some(Ok(0)))
    /\ (auth.secret.pc = "pending" /\ is_authenticated(auth))
           ~> (/\ auth.secret.pc = "done"
               /\ Unwrap(auth.secret.ret).ok
               /\ Unwrap(auth.secret.ret).v \in 1..MaxFetches)

\* A wait and a secret that were pending through a failed fetch and were
\* resolved by the second, successful one.
C30_Witness ==
    /\ auth.task = "sleep"
    /\ auth.fetches = 2
    /\ auth.errs = 1
    /\ auth.token = Some(2)
    /\ auth.wait.waited
    /\ auth.wait.ret = Some(Ok(0))
    /\ auth.secret.waited
    /\ auth.secret.ret = Some(Ok(2))

=============================================================================
